---- MODULE Spec2Model ----
(***************************************************************************)
(* Model of diff_cover/report_generator.py: DiffViolations, the lazily     *)
(* memoised per-path map of BaseReportGenerator with its summary queries,   *)
(* TemplateReportGenerator._context, and Hunker (hunkify, code_and_context, *)
(* classify).                                                               *)
(*                                                                          *)
(* Floats are modelled exactly: percent_covered returns the rational        *)
(* num/den, and int(float(c) / t * 100) is the truncation of 100*c/t.  In   *)
(* IEEE doubles the two agree for every total below 50 (the first           *)
(* difference is c = 29, t = 50), far above the totals reached here.        *)
(***************************************************************************)
EXTENDS Integers, Sequences, FiniteSets, TLC

\* ---------------------------------------------------------------- bounds

\* Line numbers the collaborators of the report generator answer with.
MaxLine == 1
\* Cap on the collaborator call counters (never reached when memoised).
MaxCalls == 2
\* Line numbers, list length, changed lines and file length for a Hunker.
HunkMaxLine == 9
MaxMissing == 2
MaxChanged == 1
MaxFileLen == 11

Paths == {"a.py", "b.py"}
Lines == 1 .. MaxLine

\* ------------------------------------------------------------ primitives

\* measured_lines(path) is a set of lines or Python's None.
None == [isNone |-> TRUE, set |-> {}]
Some(S) == [isNone |-> FALSE, set |-> S]

EmptyMap == [p \in {} |-> 0]

Min(S) == CHOOSE x \in S : \A y \in S : x <= y

\* sorted(set)
RECURSIVE sorted(_)
sorted(S) == IF S = {} THEN <<>> ELSE <<Min(S)>> \o sorted(S \ {Min(S)})

\* sum(f(v) for v in dict.values())
RECURSIVE SumOver(_, _)
SumOver(f, D) ==
    IF D = {} THEN 0
    ELSE LET p == CHOOSE q \in D : TRUE IN f[p] + SumOver(f, D \ {p})

\* int(x) of the quotient a / b, b > 0: truncation toward zero.
TruncDiv(a, b) == IF a >= 0 THEN a \div b ELSE -((-a) \div b)

\* range(a, b)
range(a, b) == [k \in 1 .. (IF b > a THEN b - a ELSE 0) |-> a + k - 1]

\* seq[start:stop] of a Python list, stop >= 0, start possibly negative.
PySlice(seq, start, stop) ==
    LET n == Len(seq)
        s0 == IF start < 0 THEN start + n ELSE start
        s == IF s0 < 0 THEN 0 ELSE IF s0 > n THEN n ELSE s0
        e == IF stop > n THEN n ELSE stop
    IN  IF e > s THEN [k \in 1 .. (e - s) |-> seq[s + k]] ELSE <<>>

\* zip(a, b) of two lists (Python 2: a list of pairs, as long as the shorter).
zip(a, b) ==
    LET n == IF Len(a) < Len(b) THEN Len(a) ELSE Len(b)
    IN  [k \in 1 .. n |-> <<a[k], b[k]>>]

\* f.readlines() of a file of n lines: line i holds its own text.
SourceLine(i) == "line " \o ToString(i) \o "\n"
File(n) == [i \in 1 .. n |-> SourceLine(i)]

VARIABLES
    paths_changed,    \* diff.src_paths_changed()
    lines_changed,    \* diff.lines_changed(path), per path
    violations,       \* lines of violations.violations(path), per path
    measured_lines,   \* violations.measured_lines(path), per path
    content,          \* the lines of the source file at path
    diff_violations,  \* the @lazy attribute _diff_violations
    calls,            \* collaborator calls made by the report generator
    hunker,           \* the fields of a Hunker instance
    result            \* the last call made and what it returned

vars == <<paths_changed, lines_changed, violations, measured_lines, content,
          diff_violations, calls, hunker, result>>

inputs == <<paths_changed, lines_changed, violations, measured_lines, content>>

\* ---------------------------------------------------------- DiffViolations

\* A violations list is read only through set(v.line for v in violations),
\* so it is modelled by that set of lines.
DiffViolations(viols, measured, diff_lines) ==
    [violations |-> viols,
     lines |-> viols \cap diff_lines,
     measured_lines |-> IF measured.isNone THEN diff_lines
                        ELSE measured.set \cap diff_lines]

\* ------------------------------------------------------ BaseReportGenerator

NoCalls ==
    [src_paths_changed |-> 0,
     violations |-> [p \in Paths |-> 0],
     measured_lines |-> [p \in Paths |-> 0],
     lines_changed |-> [p \in Paths |-> 0]]

NotComputed == [computed |-> FALSE, value |-> EmptyMap]

\* The body of _diff_violations: one DiffViolations per changed path.
ComputeDiffViolations ==
    [src_path \in paths_changed |->
        DiffViolations(violations[src_path], measured_lines[src_path],
                       lines_changed[src_path])]

NeedsCompute_NoMemo(dv) == TRUE

\* @lazy: the body runs only while the attribute is not yet stored.
NeedsCompute(dv) == ~dv.computed

\* Reading self._diff_violations.
Lazy(dv) ==
    IF NeedsCompute(dv) THEN [computed |-> TRUE, value |-> ComputeDiffViolations]
    ELSE dv

Bump(count, S) == [p \in Paths |-> IF p \in S THEN count[p] + 1 ELSE count[p]]

CallsAfter(dv, c) ==
    IF NeedsCompute(dv)
    THEN [src_paths_changed |-> c.src_paths_changed + 1,
          violations |-> Bump(c.violations, paths_changed),
          measured_lines |-> Bump(c.measured_lines, paths_changed),
          lines_changed |-> Bump(c.lines_changed, paths_changed)]
    ELSE c

src_paths_Unfiltered(dv) == DOMAIN dv

src_paths(dv) == {src \in DOMAIN dv : Cardinality(dv[src].measured_lines) > 0}

percent_covered(dv, src_path) ==
    IF src_path \notin DOMAIN dv THEN [tag |-> "None"]
    ELSE LET uncovered == Cardinality(dv[src_path].lines)
             measured == Cardinality(dv[src_path].measured_lines)
         IN  IF measured = 0 THEN [tag |-> "ZeroDivisionError"]
             ELSE [tag |-> "float",
                   num |-> 100 * measured - 100 * uncovered,
                   den |-> measured]

missing_lines(dv, src_path) ==
    IF src_path \notin DOMAIN dv THEN <<>> ELSE sorted(dv[src_path].lines)

total_num_lines(dv) ==
    SumOver([p \in DOMAIN dv |-> Cardinality(dv[p].measured_lines)], DOMAIN dv)

total_num_missing(dv) ==
    SumOver([p \in DOMAIN dv |-> Cardinality(dv[p].lines)], DOMAIN dv)

total_percent_covered(dv) ==
    LET total_lines == total_num_lines(dv)
    IN  IF total_lines > 0
        THEN TruncDiv((total_lines - total_num_missing(dv)) * 100, total_lines)
        ELSE 100

\* ------------------------------------------------------------------ Hunker

lines_of_context == 2

NoHunker == [src_path |-> "", line_numbers |-> <<>>]

\* Hunker.__init__
Hunker(src_path, missing) == [src_path |-> src_path, line_numbers |-> missing]

\* The for loop of hunkify; i is the Python index, hunks is what is returned.
RECURSIVE hunkify_loop(_, _, _, _)
hunkify_loop(line_numbers, i, hunks, current_hunk) ==
    IF i >= Len(line_numbers) - 1 THEN hunks
    ELSE IF line_numbers[i + 2] - line_numbers[i + 1] < 2 * lines_of_context + 2
         THEN hunkify_loop(line_numbers, i + 1, hunks,
                           Append(current_hunk, line_numbers[i + 2]))
         ELSE hunkify_loop(line_numbers, i + 1, Append(hunks, current_hunk),
                           <<line_numbers[i + 2]>>)

hunkify(line_numbers) ==
    IF line_numbers = <<>> THEN <<>>
    ELSE hunkify_loop(line_numbers, 0, <<>>, <<line_numbers[1]>>)

\* One iteration of the loop of code_and_context.
padded_hunk(hunk, file) ==
    LET first == hunk[1]
        last == hunk[Len(hunk)]
    IN  IF first - lines_of_context < 0
        THEN zip(range(0, last + lines_of_context + 1),
                 PySlice(file, 0, last + lines_of_context))
        ELSE zip(range(first - lines_of_context, last + lines_of_context + 1),
                 PySlice(file, first - lines_of_context - 1,
                         last + lines_of_context))

code_and_context(line_numbers, file) ==
    LET hunks == hunkify(line_numbers)
    IN  [h \in 1 .. Len(hunks) |-> padded_hunk(hunks[h], file)]

Line(line_num, line_code, line_type) ==
    [line_num |-> line_num, line_code |-> line_code, line_type |-> line_type]

\* x in list
InList(x, list) == \E k \in 1 .. Len(list) : list[k] = x

classify_line_ChangedFirst(pair, line_numbers, changed) ==
    IF pair[1] \in changed THEN Line(pair[1], pair[2], "NEWCONTEXT")
    ELSE IF InList(pair[1], line_numbers) THEN Line(pair[1], pair[2], "VIOLATION")
    ELSE Line(pair[1], pair[2], "OLDCONTEXT")

\* The if / elif / else of classify for one (number, text) pair.
classify_line(pair, line_numbers, changed) ==
    IF InList(pair[1], line_numbers) THEN Line(pair[1], pair[2], "VIOLATION")
    ELSE IF pair[1] \in changed THEN Line(pair[1], pair[2], "NEWCONTEXT")
    ELSE Line(pair[1], pair[2], "OLDCONTEXT")

classify(line_numbers, file, changed) ==
    LET padded == code_and_context(line_numbers, file)
    IN  [h \in 1 .. Len(padded) |->
            [i \in 1 .. Len(padded[h]) |->
                classify_line(padded[h][i], line_numbers, changed)]]

\* -------------------------------------------------- TemplateReportGenerator

coverage_report_name == "violations.name()"
diff_report_name == "diff.name()"

src_path_stats(dv, src_path) ==
    LET missing == missing_lines(dv, src_path)
    IN  [percent_covered |-> percent_covered(dv, src_path),
         missing_lines |-> [k \in 1 .. Len(missing) |-> ToString(missing[k])],
         num_missing |-> Len(missing)]

context(dv) ==
    [report_name |-> coverage_report_name,
     diff_name |-> diff_report_name,
     src_stats |-> [src \in src_paths(dv) |-> src_path_stats(dv, src)],
     augmented_stats |->
        [src \in src_paths(dv) |->
            classify(Hunker(src, missing_lines(dv, src)).line_numbers,
                     content[src], lines_changed[src])],
     total_num_lines |-> total_num_lines(dv),
     total_num_missing |-> total_num_missing(dv),
     total_percent_covered |-> total_percent_covered(dv)]

\* ----------------------------------------------------------------- actions

NoResult == [op |-> "none", arg |-> "", cached |-> FALSE, val |-> [tag |-> "none"]]

\* A call of a method that reads self._diff_violations and returns val.
Query(op, arg, val) ==
    /\ calls.src_paths_changed < MaxCalls
    /\ diff_violations' = Lazy(diff_violations)
    /\ calls' = CallsAfter(diff_violations, calls)
    /\ result' = [op |-> op, arg |-> arg, cached |-> ~NeedsCompute(diff_violations),
                  val |-> val]
    /\ UNCHANGED <<inputs, hunker>>

SrcPaths ==
    Query("src_paths", "",
          [tag |-> "set", set |-> src_paths(Lazy(diff_violations).value)])

PercentCovered ==
    \E src_path \in Paths :
        Query("percent_covered", src_path,
              percent_covered(Lazy(diff_violations).value, src_path))

MissingLines ==
    \E src_path \in Paths :
        Query("missing_lines", src_path,
              [tag |-> "list",
               list |-> missing_lines(Lazy(diff_violations).value, src_path)])

TotalNumLines ==
    Query("total_num_lines", "",
          [tag |-> "int", int |-> total_num_lines(Lazy(diff_violations).value)])

TotalNumMissing ==
    Query("total_num_missing", "",
          [tag |-> "int", int |-> total_num_missing(Lazy(diff_violations).value)])

TotalPercentCovered ==
    Query("total_percent_covered", "",
          [tag |-> "int", int |-> total_percent_covered(Lazy(diff_violations).value)])

Context ==
    Query("_context", "",
          [tag |-> "dict", dict |-> context(Lazy(diff_violations).value)])

\* A method of the Hunker instance; it reads no report generator state.
HunkerCall(op, val) ==
    /\ hunker # NoHunker
    /\ result' = [op |-> op, arg |-> hunker.src_path, cached |-> FALSE, val |-> val]
    /\ UNCHANGED <<inputs, diff_violations, calls, hunker>>

Hunkify ==
    HunkerCall("hunkify", [tag |-> "hunks", hunks |-> hunkify(hunker.line_numbers)])

CodeAndContext ==
    HunkerCall("code_and_context",
               [tag |-> "hunks",
                hunks |-> code_and_context(hunker.line_numbers,
                                           content[hunker.src_path])])

Classify ==
    HunkerCall("classify",
               [tag |-> "hunks",
                hunks |-> classify(hunker.line_numbers, content[hunker.src_path],
                                   lines_changed[hunker.src_path])])

\* ---------------------------------------------------------- specifications

\* A report generator over any collaborators; construction calls none of them.
\* What the collaborators would answer for a path outside the diff is never
\* read, so it is fixed to the empty answer.
Init ==
    /\ paths_changed \in SUBSET Paths
    /\ lines_changed \in [Paths -> SUBSET Lines]
    /\ violations \in [Paths -> SUBSET Lines]
    /\ measured_lines \in [Paths -> {None} \cup {Some(S) : S \in SUBSET Lines}]
    /\ \A p \in Paths \ paths_changed :
          /\ lines_changed[p] = {}
          /\ violations[p] = {}
          /\ measured_lines[p] = None
    /\ content = [p \in Paths |-> File(MaxLine + lines_of_context)]
    /\ diff_violations = NotComputed
    /\ calls = NoCalls
    /\ hunker = NoHunker
    /\ result = NoResult

Next ==
    \/ SrcPaths
    \/ PercentCovered
    \/ MissingLines
    \/ TotalNumLines
    \/ TotalNumMissing
    \/ TotalPercentCovered
    \/ Context

Spec == Init /\ [][Next]_vars

BoundedSets(n, k) == {S \in SUBSET (1 .. n) : Cardinality(S) <= k}

\* A Hunker built on any sorted duplicate-free list, any diff and any file.
InitHunker ==
    /\ paths_changed = {"a.py"}
    /\ \E changed \in BoundedSets(HunkMaxLine, MaxChanged) :
          lines_changed = [p \in Paths |-> IF p = "a.py" THEN changed ELSE {}]
    /\ violations = [p \in Paths |-> {}]
    /\ measured_lines = [p \in Paths |-> None]
    /\ \E n \in 0 .. MaxFileLen :
          content = [p \in Paths |-> IF p = "a.py" THEN File(n) ELSE <<>>]
    /\ diff_violations = NotComputed
    /\ calls = NoCalls
    /\ \E missing \in BoundedSets(HunkMaxLine, MaxMissing) :
          hunker = Hunker("a.py", sorted(missing))
    /\ result = NoResult

NextHunker ==
    \/ Hunkify
    \/ CodeAndContext
    \/ Classify

SpecHunker == InitHunker /\ [][NextHunker]_vars

\* ------------------------------------------------------------------ claims

DV == diff_violations.value

NumLines(p) == Cardinality(DV[p].lines)
NumMeasured(p) == Cardinality(DV[p].measured_lines)

\* C1: every entry of the per-path map has violation_lines (lines) a subset of
\* measured_lines, and measured_lines a subset of the path's changed lines.
C1_Containment ==
    \A p \in DOMAIN DV :
        /\ DV[p].lines \subseteq DV[p].measured_lines
        /\ DV[p].measured_lines \subseteq lines_changed[p]

\* C2: percent_covered(path) of a path with an entry returns
\* 100 - |lines| / |measured_lines| * 100, a value within [0, 100]; of a path
\* without an entry it returns None.
C2_PercentCovered ==
    result.op = "percent_covered" =>
        IF result.arg \in DOMAIN DV
        THEN /\ result.val.tag = "float"
             /\ result.val.den > 0
             /\ result.val.num * NumMeasured(result.arg)
                  = (100 * NumMeasured(result.arg) - 100 * NumLines(result.arg))
                      * result.val.den
             /\ 0 <= result.val.num
             /\ result.val.num <= 100 * result.val.den
        ELSE result.val.tag = "None"

TotalLines == SumOver([p \in DOMAIN DV |-> NumMeasured(p)], DOMAIN DV)
TotalMissing == SumOver([p \in DOMAIN DV |-> NumLines(p)], DOMAIN DV)

\* C3: total_percent_covered() returns an integer within [0, 100]:
\* floor(100 - total_num_missing / total_num_lines * 100) when total_num_lines
\* is positive, and 100 when it is 0.
C3_TotalPercentCovered ==
    result.op = "total_percent_covered" =>
        /\ result.val.int \in 0 .. 100
        /\ result.val.int = IF TotalLines > 0
                            THEN (100 * TotalLines - 100 * TotalMissing) \div TotalLines
                            ELSE 100

\* C4: percent_covered(path) of every path of src_paths_changed(), also one
\* whose measured_lines is empty, and total_percent_covered() complete without
\* a division by zero.
C4_NoDivisionByZero ==
    /\ (result.op = "percent_covered" /\ result.arg \in paths_changed)
          => result.val.tag # "ZeroDivisionError"
    /\ result.op = "total_percent_covered" => result.val.tag = "int"

\* measured_lines of a path restricted to its changed lines, from what the
\* collaborators answer.
MeasuredChanged(p) ==
    IF measured_lines[p].isNone THEN lines_changed[p]
    ELSE measured_lines[p].set \cap lines_changed[p]

\* C5: src_paths() returns exactly the paths of src_paths_changed() whose
\* measured lines, restricted to the changed lines, are not empty.
C5_SrcPaths ==
    result.op = "src_paths" =>
        result.val.set = {p \in paths_changed : MeasuredChanged(p) # {}}

\* C5 witness: src_paths() kept one changed path and dropped another.
C5_Witness ==
    /\ result.op = "src_paths"
    /\ \E p \in paths_changed : p \in result.val.set
    /\ \E p \in paths_changed : p \notin result.val.set /\ lines_changed[p] # {}

C6_StateOk ==
    /\ ~diff_violations.computed => calls = NoCalls
    /\ diff_violations.computed =>
          /\ calls.src_paths_changed = 1
          /\ \A p \in Paths :
                LET n == IF p \in paths_changed THEN 1 ELSE 0
                IN  /\ calls.violations[p] = n
                    /\ calls.measured_lines[p] = n
                    /\ calls.lines_changed[p] = n

C6_StepOk ==
    /\ diff_violations.computed =>
          (diff_violations' = diff_violations /\ calls' = calls)
    /\ (result'.op = result.op /\ result'.arg = result.arg)
          => result'.val = result.val

\* C6: construction calls no collaborator; the per-path map is built once, by
\* the first query (src_paths_changed() once, violations / measured_lines /
\* lines_changed once per changed path), never changes afterwards, and a
\* repeated query returns what it returned before.
C6_Memoised == [](C6_StateOk) /\ [][C6_StepOk]_vars

\* C6 witness: a query answered from the stored map, over a diff of two paths.
C6_Witness ==
    /\ result.op = "percent_covered"
    /\ result.cached
    /\ paths_changed = Paths
    /\ calls.src_paths_changed = 1

Max2(a, b) == IF a >= b THEN a ELSE b
Min2(a, b) == IF a <= b THEN a ELSE b

WideGaps(ln) ==
    {k \in 1 .. Len(ln) - 1 : ln[k + 1] - ln[k] >= 2 * lines_of_context + 2}

\* C7: hunkify() returns no hunk for the empty list and otherwise one hunk more
\* than there are consecutive pairs (a, b) with b - a >= 2R + 2; consecutive
\* lines are in the same hunk exactly when b - a < 2R + 2.
C7_Hunkify ==
    result.op = "hunkify" =>
        LET ln == hunker.line_numbers
            hs == result.val.hunks
        IN  /\ Len(hs) = IF ln = <<>> THEN 0 ELSE 1 + Cardinality(WideGaps(ln))
            /\ \A k \in 1 .. Len(ln) - 1 :
                  (ln[k + 1] - ln[k] < 2 * lines_of_context + 2)
                     <=> \E h \in 1 .. Len(hs) :
                            InList(ln[k], hs[h]) /\ InList(ln[k + 1], hs[h])

\* The window of a raw hunk: (n, line n of the file) for n ascending over
\* max(first - R, 1) .. last + R, lines past the end of the file absent.
Window(hunk, file) ==
    LET lo == Max2(hunk[1] - lines_of_context, 1)
        hi == Min2(hunk[Len(hunk)] + lines_of_context, Len(file))
    IN  [k \in 1 .. (IF hi >= lo THEN hi - lo + 1 ELSE 0) |->
            <<lo + k - 1, file[lo + k - 1]>>]

\* C8: for every raw hunk of hunkify(), code_and_context() emits exactly the
\* pairs (n, text of file line n) of the hunk's window.
C8_CodeAndContext ==
    result.op = "code_and_context" =>
        LET raw == hunkify(hunker.line_numbers)
            file == content[hunker.src_path]
        IN  /\ Len(result.val.hunks) = Len(raw)
            /\ \A h \in 1 .. Len(raw) : result.val.hunks[h] = Window(raw[h], file)

Tag(n, missing, changed) ==
    IF n \in missing THEN "VIOLATION"
    ELSE IF n \in changed THEN "NEWCONTEXT"
    ELSE "OLDCONTEXT"

Elems(list) == {list[k] : k \in 1 .. Len(list)}

\* C9: classify() keeps the number and order of the lines of every padded
\* hunk, with their numbers and contents, and tags line n VIOLATION when n is a
\* missing line, else NEWCONTEXT when n is a changed line, else OLDCONTEXT.
C9_Classify ==
    result.op = "classify" =>
        LET padded == code_and_context(hunker.line_numbers, content[hunker.src_path])
            hs == result.val.hunks
        IN  /\ Len(hs) = Len(padded)
            /\ \A h \in 1 .. Len(padded) :
                  /\ Len(hs[h]) = Len(padded[h])
                  /\ \A i \in 1 .. Len(padded[h]) :
                        /\ hs[h][i].line_num = padded[h][i][1]
                        /\ hs[h][i].line_code = padded[h][i][2]
                        /\ hs[h][i].line_type
                              = Tag(padded[h][i][1], Elems(hunker.line_numbers),
                                    lines_changed[hunker.src_path])

\* C9 witness: a classified hunk holding a line of each of the three tags.
C9_Witness ==
    /\ result.op = "classify"
    /\ \E h \in 1 .. Len(result.val.hunks) :
          \A t \in {"VIOLATION", "NEWCONTEXT", "OLDCONTEXT"} :
              \E i \in 1 .. Len(result.val.hunks[h]) :
                  result.val.hunks[h][i].line_type = t

\* The (hunk, index) positions of the lines of a list of hunks.
Positions(hs) ==
    UNION {{<<h, i>> : i \in 1 .. Len(hs[h])} : h \in 1 .. Len(hs)}

\* C10: for every path of src_paths() whose file holds every missing line, the
\* classified hunks of _context() hold every missing line exactly once, tagged
\* VIOLATION; every hunk is non-empty with a VIOLATION line; line numbers
\* increase strictly inside a hunk and from one hunk to the next.
C10_ContextHunks ==
    result.op = "_context" =>
        \A src \in src_paths(DV) :
            LET hs == result.val.dict.augmented_stats[src]
                missing == DV[src].lines
            IN  (\A n \in missing : n <= Len(content[src])) =>
                    /\ \A n \in missing :
                          /\ Cardinality({c \in Positions(hs) :
                                            hs[c[1]][c[2]].line_num = n}) = 1
                          /\ \A h \in 1 .. Len(hs) : \A i \in 1 .. Len(hs[h]) :
                                hs[h][i].line_num = n => hs[h][i].line_type = "VIOLATION"
                    /\ \A h \in 1 .. Len(hs) :
                          /\ Len(hs[h]) > 0
                          /\ \E i \in 1 .. Len(hs[h]) : hs[h][i].line_type = "VIOLATION"
                          /\ \A i \in 1 .. Len(hs[h]) - 1 :
                                hs[h][i].line_num < hs[h][i + 1].line_num
                          /\ h < Len(hs) =>
                                hs[h][Len(hs[h])].line_num < hs[h + 1][1].line_num

====
